---- MODULE Spec2Model ----
\* Model of the i.magiccap upload / retrieve gateway (src/main.py):
\* the POST /upload handler, the GET /<item> handler and the
\* SanicS3Stream streaming callback, with the installation registry,
\* the object store and the error-reporting sink as collaborators.
\* Strings are sequences of one-character strings.
EXTENDS Integers, Sequences, FiniteSets, TLC

VARIABLES reqs, bucket, lookups, puts, sentry

vars == <<reqs, bucket, lookups, puts, sentry>>

\* ------------------------------------------------------------------ bounds
MaxReqs == 2        \* requests in flight over one run
MaxHdrLen == 5      \* characters of an Authorization header value
MaxNameLen == 3     \* characters of an uploaded file's name
MaxPrefixes == 1    \* sampled outcomes of the random prefix generator

\* ------------------------------------------------------- program constants
PrefixLen == 8
NumLetters == 26
StatusOk == 200
StatusBadRequest == 400
StatusNotFound == 404
StatusServerError == 500

AsciiLowercase ==
    << "a", "b", "c", "d", "e", "f", "g", "h", "i", "j", "k", "l", "m",
       "n", "o", "p", "q", "r", "s", "t", "u", "v", "w", "x", "y", "z" >>

MsgNoHeader == "No authorization header present."
MsgInvalidHeader == "Invalid authorization header present."
MsgInvalidInstall == "Invalid installation ID."
MsgNoData == "No data found."
MsgNotFound == "Not found."
PublicBase == "https://i.magiccap.me/"

\* ------------------------------------------------------------ pure helpers
RECURSIVE SplitOn(_, _)
\* str.split(sep) with a one-character separator: every occurrence cuts,
\* empty pieces are kept, the result always has at least one piece.
SplitOn(s, sep) ==
    IF s = <<>> THEN << <<>> >>
    ELSE LET rest == SplitOn(Tail(s), sep)
         IN  IF Head(s) = sep
             THEN << <<>> >> \o rest
             ELSE << <<Head(s)>> \o Head(rest) >> \o Tail(rest)

\* str.lower() on one character of the modelled alphabet.
LowerChar(c) ==
    CASE c = "A" -> "a"
      [] c = "B" -> "b"
      [] OTHER -> c

Lower(s) == [i \in 1..Len(s) |-> LowerChar(s[i])]

\* list.pop(): the last element.
Pop(l) == l[Len(l)]

\* auth_header.split(" ")
AuthHeaderSplit(h) == SplitOn(h, " ")

HeaderOkLoose(parts) == Len(parts) >= 2
\* len(auth_header_split) != 2 rejects the request.
HeaderOk(parts) == Len(parts) = 2

\* the installs table, read-only for the gateway
Installs == { <<"a">> }

\* r.table("installs").get(id): the record, or nothing.
RegistryGet(id) == id \in Installs

InstallFoundAlways(install) == TRUE
\* `if not install` rejects the request.
InstallFound(install) == install

ExtNoLower(name) == Pop(SplitOn(name, "."))
\* file_.name.split(".").pop().lower()
Ext(name) == Lower(Pop(SplitOn(name, ".")))

\* f"{filename}.{ext}", the Key handed to put_object
Key(filename, ext) == filename \o <<".">> \o ext

UrlNoExt(filename, ext) == <<PublicBase>> \o filename
\* f"https://i.magiccap.me/{filename}.{ext}"
Url(filename, ext) == <<PublicBase>> \o filename \o <<".">> \o ext

\* "".join(random.choice(string.ascii_lowercase) for i in range(8)):
\* a sample of the values the generator can return.
RandomFilenames ==
    { [j \in 1..PrefixLen |-> AsciiLowercase[((i * j) % NumLetters) + 1]] :
        i \in 1..MaxPrefixes }

\* errors get_object can raise
BackendErrors == { "NoSuchKey", "AccessDenied", "SlowDown", "EndpointConnectionError" }

IsClientErrorNone(err) == FALSE
\* `except botocore.exceptions.ClientError`: every error response of the
\* service is a ClientError; a connection failure is not.
IsClientError(err) == err \in { "NoSuchKey", "AccessDenied", "SlowDown" }

\* ------------------------------------------------------------------ inputs
Reqs == 1..MaxReqs

\* every string of at most n characters of S
SeqsUpTo(S, n) == UNION { [1..k -> S] : k \in 0..n }

HdrChars == { "a", " ", "\t" }
NameChars == { "a", "B", "." }

NoHeader == [present |-> FALSE, value |-> <<>>]
Hdr(v) == [present |-> TRUE, value |-> v]

AllHeaders == { NoHeader } \cup { Hdr(v) : v \in SeqsUpTo(HdrChars, MaxHdrLen) }
FewHeaders == { NoHeader, Hdr(<<"a">>), Hdr(<<"a", " ", "a">>), Hdr(<<"a", " ", "a", "a">>) }

File(name, body, type) == [name |-> name, body |-> body, type |-> type]
NoFiles == <<>>

AllFiles == { NoFiles } \cup
    { << File(n, <<1>>, "image/png") >> : n \in SeqsUpTo(NameChars, MaxNameLen) }
FewFiles == { NoFiles,
              << File(<<"a", ".", "B">>, <<1, 2>>, "image/png") >>,
              << File(<<"B", ".", "b">>, <<2, 1>>, "image/gif") >> }

Items == { Key(f, <<"b">>) : f \in RandomFilenames } \cup { <<"z">> }

\* ------------------------------------------------------------------- state
IdleReq ==
    [ kind |-> "none", pc |-> "idle",
      hdr |-> NoHeader, files |-> NoFiles,
      status |-> 0, msg |-> "", filename |-> <<>>, ext |-> <<>>, url |-> <<>>,
      item |-> <<>>, err |-> "", ctype |-> "", src |-> 0,
      stream |-> "none", rest |-> <<>>, buf |-> <<>>, received |-> <<>>,
      outcome |-> "" ]

Init ==
    /\ reqs = [r \in Reqs |-> IdleReq]
    /\ bucket = <<>>
    /\ lookups = <<>>
    /\ puts = <<>>
    /\ sentry = {}

Respond(r, status, msg) ==
    reqs' = [reqs EXCEPT ![r].pc = "done", ![r].status = status, ![r].msg = msg]

\* ------------------------------------------------------------- POST /upload
\* Lines 114-127: read the header, split it, issue the registry lookup.
UploadStart(r, hdr, files) ==
    /\ reqs[r].pc = "idle"
    /\ LET rq == [reqs[r] EXCEPT !.kind = "upload", !.hdr = hdr, !.files = files]
       IN  IF ~hdr.present
           THEN /\ reqs' = [reqs EXCEPT ![r] = [rq EXCEPT !.pc = "done",
                                !.status = StatusBadRequest, !.msg = MsgNoHeader]]
                /\ UNCHANGED lookups
           ELSE IF ~HeaderOk(AuthHeaderSplit(hdr.value))
           THEN /\ reqs' = [reqs EXCEPT ![r] = [rq EXCEPT !.pc = "done",
                                !.status = StatusBadRequest, !.msg = MsgInvalidHeader]]
                /\ UNCHANGED lookups
           ELSE /\ reqs' = [reqs EXCEPT ![r] = [rq EXCEPT !.pc = "lookup"]]
                /\ lookups' = Append(lookups,
                                [by |-> r, id |-> AuthHeaderSplit(hdr.value)[2]])
    /\ UNCHANGED <<bucket, puts, sentry>>

\* Lines 127-143: the lookup answers; check the installation, take the
\* first `data` part, derive the key and issue put_object.
UploadLookupDone(r) ==
    /\ reqs[r].kind = "upload"
    /\ reqs[r].pc = "lookup"
    /\ LET rq == reqs[r]
           install == RegistryGet(AuthHeaderSplit(rq.hdr.value)[2])
       IN  IF ~InstallFound(install)
           THEN /\ Respond(r, StatusBadRequest, MsgInvalidInstall)
                /\ UNCHANGED puts
           ELSE IF Len(rq.files) = 0
           THEN /\ Respond(r, StatusBadRequest, MsgNoData)
                /\ UNCHANGED puts
           ELSE \E filename \in RandomFilenames :
                  LET file_ == rq.files[1]
                      ext == Ext(file_.name)
                  IN  /\ reqs' = [reqs EXCEPT ![r].pc = "put",
                                      ![r].filename = filename, ![r].ext = ext]
                      /\ puts' = Append(puts,
                            [ by |-> r, Key |-> Key(filename, ext),
                              Body |-> file_.body, ContentType |-> file_.type ])
    /\ UNCHANGED <<bucket, lookups, sentry>>

\* Line 127: the registry connection fails; the exception is not caught.
UploadLookupFail(r) ==
    /\ reqs[r].kind = "upload"
    /\ reqs[r].pc = "lookup"
    /\ Respond(r, StatusServerError, "")
    /\ sentry' = sentry \cup {r}
    /\ UNCHANGED <<bucket, lookups, puts>>

LastPutBy(r) ==
    LET idx == { i \in 1..Len(puts) : puts[i].by = r }
    IN  puts[CHOOSE i \in idx : \A j \in idx : j <= i]

\* Lines 143-147: put_object succeeds; the object is stored under Key,
\* replacing whatever the bucket held there, and the URL is returned.
PutObjectOk(r) ==
    /\ reqs[r].kind = "upload"
    /\ reqs[r].pc = "put"
    /\ LET p == LastPutBy(r)
       IN  bucket' = [k \in (DOMAIN bucket) \cup {p.Key} |->
                        IF k = p.Key
                        THEN [body |-> p.Body, type |-> p.ContentType, by |-> r]
                        ELSE bucket[k]]
    /\ reqs' = [reqs EXCEPT ![r].pc = "done", ![r].status = StatusOk,
                            ![r].url = Url(reqs[r].filename, reqs[r].ext)]
    /\ UNCHANGED <<lookups, puts, sentry>>

\* Line 143: put_object raises; the exception is not caught.
PutObjectFail(r) ==
    /\ reqs[r].kind = "upload"
    /\ reqs[r].pc = "put"
    /\ Respond(r, StatusServerError, "")
    /\ sentry' = sentry \cup {r}
    /\ UNCHANGED <<bucket, lookups, puts>>

\* ---------------------------------------------------------------- GET /<item>
\* Line 156: issue get_object for exactly the requested path segment.
RetrieveStart(r, item) ==
    /\ reqs[r].pc = "idle"
    /\ reqs' = [reqs EXCEPT ![r].kind = "get", ![r].pc = "get", ![r].item = item]
    /\ UNCHANGED <<bucket, lookups, puts, sentry>>

\* Lines 156-157: get_object answers with the object: its body stream is
\* open from here on, and the handler returns a streaming response that
\* carries the stored content type.
GetObjectOk(r) ==
    /\ reqs[r].kind = "get"
    /\ reqs[r].pc = "get"
    /\ reqs[r].item \in DOMAIN bucket
    /\ LET obj == bucket[reqs[r].item]
       IN  reqs' = [reqs EXCEPT ![r].pc = "respond", ![r].status = StatusOk,
                                ![r].ctype = obj.type, ![r].src = obj.by,
                                ![r].stream = "open", ![r].rest = obj.body]
    /\ UNCHANGED <<bucket, lookups, puts, sentry>>

\* Lines 156-159: get_object raises. A ClientError is answered with the
\* 404 text; anything else is not caught.
GetObjectErr(r, err) ==
    /\ reqs[r].kind = "get"
    /\ reqs[r].pc = "get"
    /\ (err = "NoSuchKey") => (reqs[r].item \notin DOMAIN bucket)
    /\ IF IsClientError(err)
       THEN /\ reqs' = [reqs EXCEPT ![r].pc = "done", ![r].err = err,
                                    ![r].status = StatusNotFound, ![r].msg = MsgNotFound]
            /\ UNCHANGED sentry
       ELSE /\ reqs' = [reqs EXCEPT ![r].pc = "done", ![r].err = err,
                                    ![r].status = StatusServerError]
            /\ sentry' = sentry \cup {r}
    /\ UNCHANGED <<bucket, lookups, puts>>

\* Lines 26-27: the server invokes the streaming callback, which enters
\* the `async with` block around the body stream.
StreamInvoke(r) ==
    /\ reqs[r].kind = "get"
    /\ reqs[r].pc = "respond"
    /\ reqs' = [reqs EXCEPT ![r].pc = "iter"]
    /\ UNCHANGED <<bucket, lookups, puts, sentry>>

\* Line 157: the response is dropped before the callback is invoked (the
\* connection is lost while the headers are sent); nothing of
\* SanicS3Stream.__call__ runs.
Abandon(r) ==
    /\ reqs[r].kind = "get"
    /\ reqs[r].pc = "respond"
    /\ reqs' = [reqs EXCEPT ![r].pc = "done", ![r].outcome = "abandoned"]
    /\ UNCHANGED <<bucket, lookups, puts, sentry>>

LoopAtReadEager(rq) == rq.pc \in { "iter", "write" }
\* Lines 28-29: the loop asks for the next chunk only when it is not
\* suspended in `await response.write(...)`.
LoopAtRead(rq) == rq.pc = "iter"

\* stream.iter_chunks() yields (data, end_of_http_chunk) pairs.
NextChunk(rest) == << Head(rest), TRUE >>

\* chunk[0]
ChunkData(chunk) == chunk[1]

\* Line 28: the next chunk arrives from storage.
ReadChunk(r) ==
    /\ reqs[r].kind = "get"
    /\ LoopAtRead(reqs[r])
    /\ reqs[r].rest /= <<>>
    /\ reqs' = [reqs EXCEPT ![r].pc = "write",
                            ![r].buf = Append(reqs[r].buf, NextChunk(reqs[r].rest)),
                            ![r].rest = Tail(reqs[r].rest)]
    /\ UNCHANGED <<bucket, lookups, puts, sentry>>

\* Line 29: response.write(chunk[0]) completes.
WriteChunk(r) ==
    /\ reqs[r].kind = "get"
    /\ reqs[r].pc = "write"
    /\ reqs' = [reqs EXCEPT ![r].pc = "iter",
                            ![r].received = Append(reqs[r].received,
                                                   ChunkData(Head(reqs[r].buf))),
                            ![r].buf = Tail(reqs[r].buf)]
    /\ UNCHANGED <<bucket, lookups, puts, sentry>>

\* Lines 27-28: the iterator is exhausted; leaving the `async with`
\* block closes the stream.
StreamEnd(r) ==
    /\ reqs[r].kind = "get"
    /\ reqs[r].pc = "iter"
    /\ reqs[r].rest = <<>>
    /\ reqs' = [reqs EXCEPT ![r].pc = "done", ![r].stream = "closed",
                            ![r].outcome = "complete"]
    /\ UNCHANGED <<bucket, lookups, puts, sentry>>

\* Lines 27-28: the backend read raises mid-stream; the exception leaves
\* the `async with` block, which closes the stream.
ReadFail(r) ==
    /\ reqs[r].kind = "get"
    /\ reqs[r].pc = "iter"
    /\ reqs[r].rest /= <<>>
    /\ reqs' = [reqs EXCEPT ![r].pc = "done", ![r].stream = "closed",
                            ![r].outcome = "backend_error"]
    /\ UNCHANGED <<bucket, lookups, puts, sentry>>

\* Lines 27-29: response.write raises because the client is gone; the
\* exception leaves the `async with` block, which closes the stream.
WriteFail(r) ==
    /\ reqs[r].kind = "get"
    /\ reqs[r].pc = "write"
    /\ reqs' = [reqs EXCEPT ![r].pc = "done", ![r].stream = "closed",
                            ![r].buf = <<>>, ![r].outcome = "client_abort"]
    /\ UNCHANGED <<bucket, lookups, puts, sentry>>

\* ------------------------------------------------------------ specifications
Next ==
    \E r \in Reqs :
        \/ \E hdr \in FewHeaders, files \in FewFiles : UploadStart(r, hdr, files)
        \/ UploadLookupDone(r)
        \/ UploadLookupFail(r)
        \/ PutObjectOk(r)
        \/ PutObjectFail(r)
        \/ \E item \in Items : RetrieveStart(r, item)
        \/ GetObjectOk(r)
        \/ \E err \in BackendErrors : GetObjectErr(r, err)
        \/ StreamInvoke(r)
        \/ Abandon(r)
        \/ ReadChunk(r)
        \/ WriteChunk(r)
        \/ StreamEnd(r)
        \/ ReadFail(r)
        \/ WriteFail(r)

Spec == Init /\ [][Next]_vars

\* One upload request, over every header value of the bounded alphabet.
NextAuth ==
    \/ \E hdr \in AllHeaders, files \in FewFiles : UploadStart(1, hdr, files)
    \/ UploadLookupDone(1)
    \/ UploadLookupFail(1)
    \/ PutObjectOk(1)
    \/ PutObjectFail(1)

SpecAuth == Init /\ [][NextAuth]_vars

\* One upload request, over every file name of the bounded alphabet.
NextKey ==
    \/ \E hdr \in FewHeaders, files \in AllFiles : UploadStart(1, hdr, files)
    \/ UploadLookupDone(1)
    \/ UploadLookupFail(1)
    \/ PutObjectOk(1)
    \/ PutObjectFail(1)

SpecKey == Init /\ [][NextKey]_vars

\* ------------------------------------------------------------------ properties
IsUpload(r) == reqs[r].kind = "upload"
IsGet(r) == reqs[r].kind = "get"
Finished(r) == reqs[r].pc = "done"

\* number of put_object calls request r has issued
PutsBy(r) == Cardinality({ i \in 1..Len(puts) : puts[i].by = r })

\* registry lookups request r has issued
LookupsBy(r) == { i \in 1..Len(lookups) : lookups[i].by = r }

IsPrefix(s, t) == Len(s) <= Len(t) /\ SubSeq(t, 1, Len(s)) = s

IsSpace(c) == c \in { " ", "\t" }

\* number of maximal runs of non-whitespace characters
WsTokenCount(s) ==
    Cardinality({ i \in 1..Len(s) : ~IsSpace(s[i]) /\ (i = 1 \/ IsSpace(s[i - 1])) })

\* the request fails before the write: header absent, header malformed,
\* installation unknown, or no `data` part
FailsBeforeWrite(rq) ==
    \/ ~rq.hdr.present
    \/ Len(AuthHeaderSplit(rq.hdr.value)) /= 2
    \/ AuthHeaderSplit(rq.hdr.value)[2] \notin Installs
    \/ Len(rq.files) = 0

\* C1: every upload answered 200 has issued exactly one put_object, and an
\* upload on a failure path before the write has issued none.
C1_OnePutPerSuccess ==
    \A r \in Reqs : IsUpload(r) =>
        /\ (Finished(r) /\ reqs[r].status = StatusOk) => PutsBy(r) = 1
        /\ FailsBeforeWrite(reqs[r]) => PutsBy(r) = 0

C1_Witness ==
    \E r, q \in Reqs :
        /\ IsUpload(r) /\ Finished(r) /\ reqs[r].status = StatusOk /\ PutsBy(r) = 1
        /\ IsUpload(q) /\ Finished(q) /\ reqs[q].status = StatusBadRequest
        /\ reqs[q].msg = MsgNoData /\ PutsBy(q) = 0

\* C2 (as claimed): a header value that is not exactly two
\* whitespace-separated tokens is answered 400, with no registry lookup and
\* no storage write.
C2_Claimed ==
    \A r \in Reqs :
        (IsUpload(r) /\ reqs[r].hdr.present /\ WsTokenCount(reqs[r].hdr.value) /= 2) =>
            /\ Finished(r) => reqs[r].status = StatusBadRequest
            /\ LookupsBy(r) = {}
            /\ PutsBy(r) = 0

KeyOfUrl(url) == Tail(url)

\* C4: the key of the returned URL is the key written, and a retrieval
\* of that key that reads the object this upload wrote is answered 200 with
\* the uploaded content type and the body's chunks in order, all of them
\* once the stream completes.
C4_RoundTrip ==
    \A u \in Reqs : (IsUpload(u) /\ Finished(u) /\ reqs[u].status = StatusOk) =>
        /\ reqs[u].url = <<PublicBase>> \o LastPutBy(u).Key
        /\ \A g \in Reqs :
             (IsGet(g) /\ reqs[g].item = KeyOfUrl(reqs[u].url) /\ reqs[g].src = u) =>
                /\ reqs[g].status = StatusOk
                /\ reqs[g].ctype = reqs[u].files[1].type
                /\ IsPrefix(reqs[g].received, reqs[u].files[1].body)
                /\ reqs[g].outcome = "complete"
                       => reqs[g].received = reqs[u].files[1].body

C4_Witness ==
    \E u, g \in Reqs :
        /\ IsUpload(u) /\ reqs[u].status = StatusOk
        /\ IsGet(g) /\ reqs[g].src = u /\ reqs[g].outcome = "complete"
        /\ reqs[g].item = KeyOfUrl(reqs[u].url)
        /\ Len(reqs[g].received) = 2
        /\ reqs[g].received = reqs[u].files[1].body

\* C5: a retrieval that storage answers with its no-such-key error gets
\* 404 "Not found.", no stream body, and is not reported.
C5_NotFound ==
    \A g \in Reqs : (IsGet(g) /\ Finished(g) /\ reqs[g].err = "NoSuchKey") =>
        /\ reqs[g].status = StatusNotFound
        /\ reqs[g].msg = MsgNotFound
        /\ reqs[g].stream = "none"
        /\ reqs[g].received = <<>>
        /\ g \notin sentry

C5_Witness ==
    \E g \in Reqs :
        /\ IsGet(g) /\ Finished(g) /\ reqs[g].err = "NoSuchKey"
        /\ reqs[g].item \notin DOMAIN bucket
        /\ reqs[g].status = StatusNotFound

\* C6 (as claimed): a get_object error other than not-found is not
\* answered 404 but 500, and is reported.
C6_Claimed ==
    \A g \in Reqs :
        (IsGet(g) /\ Finished(g) /\ reqs[g].err \in BackendErrors \ { "NoSuchKey" }) =>
            /\ reqs[g].status /= StatusNotFound
            /\ reqs[g].status = StatusServerError
            /\ g \in sentry

\* C7 (as claimed): no finished retrieval leaves its body stream open.
C7_Claimed ==
    \A g \in Reqs : (IsGet(g) /\ Finished(g)) => reqs[g].stream /= "open"

\* C8: at most one chunk is read from storage and not yet accepted by the
\* response writer.
C8_Backpressure ==
    \A g \in Reqs : Len(reqs[g].buf) <= 1

C8_Witness ==
    \E g \in Reqs :
        /\ IsGet(g) /\ reqs[g].pc = "write"
        /\ Len(reqs[g].buf) = 1 /\ Len(reqs[g].received) = 1

HasDot(name) == \E i \in 1..Len(name) : name[i] = "."
EndsInDot(name) == Len(name) > 0 /\ name[Len(name)] = "."

\* index of the final "." of name, 0 when there is none
LastDot(name) ==
    IF HasDot(name)
    THEN CHOOSE i \in 1..Len(name) :
            name[i] = "." /\ \A j \in (i + 1)..Len(name) : name[j] /= "."
    ELSE 0

AfterLastDot(name) == SubSeq(name, LastDot(name) + 1, Len(name))

IsLowerLetter(c) == \E i \in 1..NumLetters : AsciiLowercase[i] = c

IsPrefix8(p) == Len(p) = PrefixLen /\ \A i \in 1..Len(p) : IsLowerLetter(p[i])

\* C9 (as claimed): the key is the 8-letter prefix, "." and the lower-cased
\* text after the final "."; with no "." in the name, or a name ending in
\* ".", the key is the bare prefix.
C9_Claimed ==
    \A u \in Reqs : (IsUpload(u) /\ PutsBy(u) = 1) =>
        LET name == reqs[u].files[1].name
            key == LastPutBy(u).Key
            bare == ~HasDot(name) \/ EndsInDot(name)
        IN  /\ IsPrefix8(SubSeq(key, 1, PrefixLen))
            /\ bare => Len(key) = PrefixLen
            /\ ~bare => key = SubSeq(key, 1, PrefixLen) \o <<".">> \o Lower(AfterLastDot(name))

\* C9 (amended): the key is always the 8-letter prefix, "." and the
\* lower-cased text after the final "." of the name; with no "." in the
\* name that text is the whole name, and with a name ending in "." it is
\* empty, the "." separator staying in the key.
C9_KeyShape ==
    \A u \in Reqs : (IsUpload(u) /\ PutsBy(u) = 1) =>
        LET name == reqs[u].files[1].name
            key == LastPutBy(u).Key
        IN  /\ Len(key) > PrefixLen
            /\ IsPrefix8(SubSeq(key, 1, PrefixLen))
            /\ key = SubSeq(key, 1, PrefixLen) \o <<".">> \o Lower(AfterLastDot(name))
            /\ ~HasDot(name) => key = SubSeq(key, 1, PrefixLen) \o <<".">> \o Lower(name)
            /\ EndsInDot(name) => key = SubSeq(key, 1, PrefixLen) \o <<".">>

C9_Witness ==
    \E u \in Reqs :
        /\ IsUpload(u) /\ PutsBy(u) = 1 /\ reqs[u].status = StatusOk
        /\ reqs[u].files[1].name = <<"a", "B">>
        /\ LastPutBy(u).Key = reqs[u].filename \o <<".", "a", "b">>

\* C10 (as claimed): the body and content type stored under a key never
\* change once the key exists.
C10_Claimed ==
    [][ \A k \in DOMAIN bucket :
            /\ k \in DOMAIN bucket'
            /\ bucket'[k].body = bucket[k].body
            /\ bucket'[k].type = bucket[k].type ]_vars

====
